---- MODULE Spec2Model ----
(***************************************************************************)
(* Parallel iterators over integer ranges (src/src/range.rs).              *)
(*                                                                         *)
(* RangeIter<T> wraps a half-open Range<T>.  The indexed family (u8, u16,  *)
(* u32, usize, i8, i16, i32, isize) is split by Producer::split_at at an   *)
(* offset chosen by the caller; the unindexed family (u64, i64) halves     *)
(* itself with UnindexedProducer::split, measuring itself with a private   *)
(* len() that returns u64.                                                 *)
(*                                                                         *)
(* Integer widths are scaled down.  The indexed instantiations differ only *)
(* in width and signedness, so u8 and i8 stand for them with NarrowBits    *)
(* bits; usize, the type of an index, has UsizeBits bits; u64 and i64 have *)
(* WideBits bits.  A value of type T is the integer it denotes; every      *)
(* arithmetic operation reduces its result modulo 2^bits into T's range.   *)
(***************************************************************************)
EXTENDS Integers, Sequences, FiniteSets, TLC

\* ---------------------------------------------------------------- bounds
NarrowBits  == 2
UsizeBits   == NarrowBits + 1
WideBits    == 4
MaxLen      == 3
MaxHalveLen == 4
MaxPieces   == 3
NumTasks    == 2
MaxIndex    == MaxLen + 1

Tasks == 1 .. NumTasks

\* ----------------------------------------------------------------- types
IndexedTypes   == {"u8", "i8"}
UnindexedTypes == {"u64", "i64"}
Types          == IndexedTypes \cup UnindexedTypes

Signed(ty) == ty \in {"i8", "i64"}

Bits(ty) ==
  CASE ty \in {"u8", "i8"}   -> NarrowBits
    [] ty \in {"u64", "i64"} -> WideBits

Pow2(n) == 2 ^ n

MinT(ty) == IF Signed(ty) THEN 0 - Pow2(Bits(ty) - 1) ELSE 0
MaxT(ty) == IF Signed(ty) THEN Pow2(Bits(ty) - 1) - 1 ELSE Pow2(Bits(ty)) - 1
Values(ty) == MinT(ty) .. MaxT(ty)

\* Two's-complement reduction of an integer into T's range.
Wrap(ty, x) ==
  LET m == Pow2(Bits(ty))
      r == x % m
  IN  IF Signed(ty) /\ r > MaxT(ty) THEN r - m ELSE r

wrapping_add_sat(ty, a, b) ==
  IF a + b > MaxT(ty) THEN MaxT(ty) ELSE IF a + b < MinT(ty) THEN MinT(ty) ELSE a + b

wrapping_add(ty, a, b) == Wrap(ty, a + b)

wrapping_sub(ty, a, b) == Wrap(ty, a - b)

\* `index as $t` : truncating cast of a usize / u64 to T.
AsT_sat(ty, index) == IF index > MaxT(ty) THEN MaxT(ty) ELSE index

AsT(ty, index) == Wrap(ty, index)

\* `x as u64` for x of type u64 or i64: reinterpretation at the same width.
AsU64(ty, x) == x % Pow2(WideBits)

\* `x as usize` of an isize-wide difference.
AsUsize(x) == x % Pow2(UsizeBits)

Rng(s, e) == [start |-> s, end |-> e]

\* ------------------------------------------------- Range<T> as an iterator
\* Range<T>::next: while start < end, yield start and step it by one.
RECURSIVE into_iter(_, _)
into_iter(ty, r) ==
  IF r.start < r.end
    THEN <<r.start>> \o into_iter(ty, Rng(wrapping_add(ty, r.start, 1), r.end))
    ELSE <<>>

\* ExactSizeIterator::len of Range<T> (self.range.len()): the exact number of
\* steps from start to end as a usize, 0 when start >= end.
range_len(ty, r) ==
  IF r.start < r.end THEN AsUsize(r.end - r.start) ELSE 0

\* ------------------------------------------------ indexed: Producer::split_at
\* assert!(index <= self.range.len())
split_at_assert_strict(ty, r, index) == index < range_len(ty, r)

split_at_assert(ty, r, index) == index <= range_len(ty, r)

\* let mid = self.range.start.wrapping_add(index as $t)
split_at_mid(ty, r, index) == wrapping_add(ty, r.start, AsT(ty, index))

\* left = start .. mid, right = mid .. end, returned as (left, right)
split_at_swapped(ty, r, index) ==
  LET mid == split_at_mid(ty, r, index)
  IN  [left |-> Rng(mid, r.end), right |-> Rng(r.start, mid)]

split_at(ty, r, index) ==
  LET mid == split_at_mid(ty, r, index)
  IN  [left |-> Rng(r.start, mid), right |-> Rng(mid, r.end)]

\* ------------------------------------------- unindexed: RangeIter::len -> u64
len_nocast(ty, r) ==
  IF r.end > r.start THEN wrapping_sub(ty, r.end, r.start) ELSE 0

len(ty, r) ==
  IF r.end > r.start THEN AsU64(ty, wrapping_sub(ty, r.end, r.start)) ELSE 0

\* ------------------------------------------ unindexed: UnindexedProducer::split
\* let index = self.len() / 2
split_index_ceil(ty, r) == (len(ty, r) + 1) \div 2

split_index(ty, r) == len(ty, r) \div 2

\* if index > 0
split_divisible_gt1(index) == index > 1

split_divisible_ge0(index) == index >= 0

split_divisible(index) == index > 0

\* let mid = self.range.start.wrapping_add(index as $t)
split_mid(ty, r, index) == wrapping_add(ty, r.start, AsT(ty, index))

\* let right = mid .. self.range.end
split_right_skip(ty, r, mid) == Rng(wrapping_add(ty, mid, 1), r.end)

split_right(ty, r, mid) == Rng(mid, r.end)

\* self.range.end = mid
split_self_kept(ty, r, mid) == r

split_self(ty, r, mid) == Rng(r.start, mid)

\* (self, Option<Self>): the option is a sequence of length 0 or 1.
split(ty, r) ==
  LET index == split_index(ty, r)
      mid   == split_mid(ty, r, index)
  IN  IF split_divisible(index)
        THEN [self |-> split_self(ty, r, mid), right |-> <<split_right(ty, r, mid)>>]
        ELSE [self |-> r, right |-> <<>>]

\* ------------------------------------------------------------------ state
VARIABLES
  ty,      \* the integer type T of the RangeIter<T> being driven
  orig,    \* the range handed to into_par_iter
  pieces,  \* the RangeIter values produced so far, in left-to-right order
  failed,  \* TRUE once an assert! has panicked
  last     \* the most recent split_at / split call: arguments and result

vars == <<ty, orig, pieces, failed, last>>

\* A RangeIter value held by the tasks in `owners`; draining it with
\* into_iter consumes it and leaves its output.
Piece(r, t) == [range |-> r, owners |-> {t}, state |-> "Unsplit", out |-> <<>>]

Replace(seq, i, new) == SubSeq(seq, 1, i - 1) \o new \o SubSeq(seq, i + 1, Len(seq))

\* The longest well-formed range handed in, apart from T::MIN .. T::MAX.
MaxLenOf(ty0) == IF ty0 \in UnindexedTypes THEN MaxHalveLen ELSE MaxLen

ShortRanges(ty0) ==
  {r \in [start : Values(ty0), end : Values(ty0)] :
      r.start <= r.end /\ r.end - r.start <= MaxLenOf(ty0)}

InvertedRanges(ty0) ==
  {r \in [start : Values(ty0), end : Values(ty0)] : r.start > r.end}

FullRange(ty0) == Rng(MinT(ty0), MaxT(ty0))

Ranges(ty0) == ShortRanges(ty0) \cup InvertedRanges(ty0) \cup {FullRange(ty0)}

NoCall(r) ==
  [op |-> "none", self |-> r, index |-> 0, len |-> 0,
   left |-> <<>>, right |-> <<>>, panicked |-> FALSE]

\* into_par_iter: RangeIter { range: self }, owned by the calling task.
Init ==
  /\ ty \in Types
  /\ orig \in Ranges(ty)
  /\ pieces = <<Piece(orig, 1)>>
  /\ failed = FALSE
  /\ last = NoCall(orig)

\* Task t calls split_at(index) on the piece at position i and hands the
\* right half to task u.
SplitAt(t, i, index, u) ==
  /\ ~failed
  /\ ty \in IndexedTypes
  /\ i \in DOMAIN pieces
  /\ pieces[i].state = "Unsplit"
  /\ t \in pieces[i].owners
  /\ LET r == pieces[i].range
     IN  IF split_at_assert(ty, r, index)
           THEN LET res == split_at(ty, r, index)
                IN  /\ pieces' = Replace(pieces, i,
                                   <<Piece(res.left, t), Piece(res.right, u)>>)
                    /\ failed' = FALSE
                    /\ last' = [op |-> "split_at", self |-> r, index |-> index,
                                len |-> range_len(ty, r),
                                left |-> <<res.left>>, right |-> <<res.right>>,
                                panicked |-> FALSE]
           ELSE /\ pieces' = Replace(pieces, i, <<>>)
                /\ failed' = TRUE
                /\ last' = [op |-> "split_at", self |-> r, index |-> index,
                            len |-> range_len(ty, r),
                            left |-> <<>>, right |-> <<>>, panicked |-> TRUE]
  /\ UNCHANGED <<ty, orig>>

\* Task t calls split() on the piece at position i; a returned right half
\* goes to task u.
Split(t, i, u) ==
  /\ ~failed
  /\ ty \in UnindexedTypes
  /\ i \in DOMAIN pieces
  /\ pieces[i].state = "Unsplit"
  /\ t \in pieces[i].owners
  /\ LET r   == pieces[i].range
         res == split(ty, r)
     IN  /\ pieces' = Replace(pieces, i,
                        <<Piece(res.self, t)>> \o
                        [k \in DOMAIN res.right |-> Piece(res.right[k], u)])
         /\ last' = [op |-> "split", self |-> r, index |-> split_index(ty, r),
                     len |-> len(ty, r),
                     left |-> <<res.self>>, right |-> res.right,
                     panicked |-> FALSE]
  /\ UNCHANGED <<ty, orig, failed>>

\* Task t drains the piece at position i sequentially (into_iter / fold_with).
Drain(t, i) ==
  /\ ~failed
  /\ i \in DOMAIN pieces
  /\ pieces[i].state = "Unsplit"
  /\ t \in pieces[i].owners
  /\ pieces' = [pieces EXCEPT ![i] =
                  [range |-> @.range, owners |-> {}, state |-> "Exhausted",
                   out |-> into_iter(ty, @.range)]]
  /\ UNCHANGED <<ty, orig, failed, last>>

SplitAtStep ==
  \E t \in Tasks, u \in Tasks, i \in 1 .. MaxPieces, index \in 0 .. MaxIndex :
    Len(pieces) < MaxPieces /\ SplitAt(t, i, index, u)

SplitStep ==
  \E t \in Tasks, u \in Tasks, i \in 1 .. MaxPieces :
    Len(pieces) < MaxPieces /\ Split(t, i, u)

DrainStep == \E t \in Tasks, i \in 1 .. MaxPieces : Drain(t, i)

Next == SplitAtStep \/ SplitStep \/ DrainStep

Spec == Init /\ [][Next]_vars

\* ------------------------------------------ unindexed splitting to the leaves
HalveInit ==
  /\ ty \in UnindexedTypes
  /\ orig \in ShortRanges(ty) \cup InvertedRanges(ty)
  /\ pieces = <<Piece(orig, 1)>>
  /\ failed = FALSE
  /\ last = NoCall(orig)

HalveNext == \E t \in Tasks, u \in Tasks, i \in DOMAIN pieces : Split(t, i, u)

\* The driver keeps splitting while some piece still yields a right half.
HalveProgress == HalveNext /\ Len(pieces') > Len(pieces)

HalveSpec == HalveInit /\ [][HalveNext]_vars /\ WF_vars(HalveProgress)

\* ------------------------------------------------------------- properties
\* The element set {x : start <= x < end} of a range under T's order.
Elems(ty0, r) == {x \in Values(ty0) : r.start <= x /\ x < r.end}

Count(ty0, r) == Cardinality(Elems(ty0, r))

SeqSet(q) == {q[k] : k \in DOMAIN q}

\* What a piece contributes to the result: its recorded output once drained,
\* the output of its sequential iterator otherwise.
LeafSeq(p) == IF p.state = "Exhausted" THEN p.out ELSE into_iter(ty, p.range)

RECURSIVE Concat(_)
Concat(ps) == IF ps = <<>> THEN <<>> ELSE LeafSeq(Head(ps)) \o Concat(Tail(ps))

Live(i) == pieces[i].state = "Unsplit"

\* C1 (indexed partition law): for a well-formed range [s,e) and every index
\* with 0 <= index <= e - s, split_at(index) returns exactly [s, s+index) and
\* [s+index, e), and draining the left piece and then the right piece gives
\* the element sequence of draining [s,e) directly.
C1_PartitionLaw ==
  (/\ last.op = "split_at"
   /\ last.self.start <= last.self.end
   /\ last.index <= last.self.end - last.self.start)
  => /\ ~last.panicked
     /\ last.left = <<Rng(last.self.start, last.self.start + last.index)>>
     /\ last.right = <<Rng(last.self.start + last.index, last.self.end)>>
     /\ into_iter(ty, last.left[1]) \o into_iter(ty, last.right[1])
          = into_iter(ty, last.self)

C1_Witness ==
  /\ last.op = "split_at"
  /\ ~last.panicked
  /\ 0 < last.index
  /\ last.index < last.self.end - last.self.start
  /\ last.left # <<>>

C1_WitnessEmptyLeft ==
  /\ last.op = "split_at" /\ ~last.panicked
  /\ last.index = 0 /\ last.self.start < last.self.end

C1_WitnessEmptyRight ==
  /\ last.op = "split_at" /\ ~last.panicked
  /\ last.index = last.self.end - last.self.start /\ last.index > 0

\* C2 (ordering guarantee): after any sequence of successful splits of either
\* family, with the leaves drained in any order, the leaves' sequential
\* outputs concatenated in left-to-right order are the sequential enumeration
\* of the original range.
C2_Ordering == ~failed => Concat(pieces) = into_iter(ty, orig)

C2_Witness ==
  /\ Len(pieces) >= 3
  /\ pieces[1].state = "Unsplit"
  /\ pieces[3].state = "Exhausted"
  /\ pieces[3].out # <<>>
  /\ into_iter(ty, pieces[1].range) # <<>>

\* C4 (ownership partition): while tasks split and drain the pieces they own,
\* every live piece is owned by exactly one task (a consumed piece by none),
\* the element sets of the pieces are pairwise disjoint, and their union is
\* the element set of the original range.
PieceElems(p) == IF p.state = "Exhausted" THEN SeqSet(p.out) ELSE Elems(ty, p.range)

C4_Ownership ==
  ~failed =>
    /\ \A i \in DOMAIN pieces :
         IF Live(i) THEN \E t \in Tasks : pieces[i].owners = {t}
                    ELSE pieces[i].owners = {}
    /\ \A i \in DOMAIN pieces : \A j \in DOMAIN pieces :
         i # j => PieceElems(pieces[i]) \cap PieceElems(pieces[j]) = {}
    /\ UNION {PieceElems(pieces[i]) : i \in DOMAIN pieces} = Elems(ty, orig)

C4_Witness ==
  /\ Len(pieces) >= 3
  /\ \E i \in DOMAIN pieces : \E j \in DOMAIN pieces :
       /\ Live(i) /\ Live(j)
       /\ pieces[i].owners # pieces[j].owners
       /\ Elems(ty, pieces[i].range) # {}
       /\ Elems(ty, pieces[j].range) # {}

\* C5 (overflow safety): a split that returns two pieces computes the true
\* midpoint start + index, congruent modulo 2^bits and in fact equal, also
\* when `index as T` is negative for a signed T; for a well-formed range the
\* midpoint lies in [start, end].
C5_OverflowSafe ==
  (/\ last.op \in {"split_at", "split"}
   /\ ~last.panicked
   /\ last.right # <<>>)
  => LET mid == last.left[1].end
     IN  /\ mid \in Values(ty)
         /\ (mid - (last.self.start + last.index)) % Pow2(Bits(ty)) = 0
         /\ mid = last.self.start + last.index
         /\ last.right[1].start = mid
         /\ last.self.start <= last.self.end
              => last.self.start <= mid /\ mid <= last.self.end

C5_Witness ==
  /\ last.op = "split_at"
  /\ ~last.panicked
  /\ Signed(ty)
  /\ last.index > MaxT(ty)
  /\ AsT(ty, last.index) < 0
  /\ last.left # <<>>

\* C6 (unindexed length): for u64 and i64, len() is 0 when end <= start and
\* otherwise the true difference end - start as an unsigned value, also when
\* the difference of an i64 range exceeds i64::MAX.
TrueLen(r) == IF r.end <= r.start THEN 0 ELSE r.end - r.start

C6_LenCorrect ==
  /\ last.op = "split" => last.len = TrueLen(last.self)
  /\ ty \in UnindexedTypes =>
       \A i \in DOMAIN pieces : len(ty, pieces[i].range) = TrueLen(pieces[i].range)

C6_Witness ==
  /\ ty = "i64"
  /\ last.op = "split"
  /\ last.self = FullRange("i64")
  /\ last.len > MaxT("i64")

C6_WitnessInverted ==
  /\ last.op = "split" /\ last.self.end < last.self.start /\ last.len = 0

\* C7 (precondition violation): split_at(index) panics, returning no pieces,
\* exactly when index exceeds the number of elements of the range; no other
\* operation panics.
C7_Precondition ==
  /\ last.op = "split_at" =>
       (last.panicked <=> last.index > Len(into_iter(ty, last.self)))
  /\ last.panicked => last.left = <<>> /\ last.right = <<>> /\ failed
  /\ failed => last.op = "split_at" /\ last.panicked

C7_Witness ==
  /\ failed
  /\ last.op = "split_at"
  /\ last.index = Count(ty, last.self) + 1

C7_WitnessBoundary ==
  /\ ~failed /\ last.op = "split_at"
  /\ last.index = Count(ty, last.self) /\ last.index > 0

\* C8 (indivisibility): split() on a range with no element (start = end or
\* end < start) or one element returns (self unchanged, None); it returns
\* Some(right) exactly when the range has at least two elements.
C8_Indivisible ==
  last.op = "split" =>
    /\ Count(ty, last.self) <= 1 => last.right = <<>>
    /\ last.right = <<>> => last.left = <<last.self>>
    /\ last.right # <<>> <=> Count(ty, last.self) >= 2

C8_Witness ==
  /\ last.op = "split"
  /\ last.right = <<>>
  /\ last.self.end < last.self.start

C8_WitnessOne ==
  /\ last.op = "split" /\ last.right = <<>> /\ Count(ty, last.self) = 1

\* C9 (balance): a successful split() of a range of n elements returns a left
\* piece of floor(n/2) elements and a right piece of n - floor(n/2) elements.
C9_Balance ==
  (last.op = "split" /\ last.right # <<>>) =>
    LET n == Count(ty, last.self)
        l == Count(ty, last.left[1])
        r == Count(ty, last.right[1])
    IN  /\ l = n \div 2
        /\ r = n - (n \div 2)
        /\ n % 2 = 0 => l = r
        /\ n % 2 = 1 => r = l + 1

C9_Witness ==
  /\ last.op = "split"
  /\ last.right # <<>>
  /\ Count(ty, last.self) % 2 = 1

\* C10 (no wrap in split): in a successful split() the cast `index as T` keeps
\* the value, start + index does not leave T's range, start < mid < end, the
\* left piece keeps start, the right piece keeps end, they meet at mid, and
\* both are non-empty.
C10_MidInside ==
  (last.op = "split" /\ last.right # <<>>) =>
    LET s == last.self.start
        e == last.self.end
        L == last.left[1]
        R == last.right[1]
    IN  /\ last.index \in Values(ty)
        /\ AsT(ty, last.index) = last.index
        /\ s + last.index \in Values(ty)
        /\ L.start = s
        /\ R.end = e
        /\ L.end = s + last.index
        /\ R.start = L.end
        /\ s < L.end /\ L.end < e
        /\ Elems(ty, L) # {} /\ Elems(ty, R) # {}

C10_Witness ==
  /\ last.op = "split"
  /\ last.right # <<>>
  /\ ty = "i64"
  /\ last.len > MaxT(ty)

\* C3 (unindexed termination): splitting every piece that still divides
\* ends with every piece holding at most one element and split() returning
\* None for each; every successful split returns two pieces that are both
\* strictly smaller than the piece that was split.
AllIndivisible ==
  \A i \in DOMAIN pieces :
    /\ Count(ty, pieces[i].range) <= 1
    /\ split(ty, pieces[i].range).right = <<>>

StrictlySmaller ==
  (last.op = "split" /\ last.right # <<>>) =>
    /\ Count(ty, last.left[1]) < Count(ty, last.self)
    /\ Count(ty, last.right[1]) < Count(ty, last.self)

C3_Termination == <>[]AllIndivisible /\ []StrictlySmaller

C3_Witness ==
  /\ Len(pieces) >= 3
  /\ AllIndivisible
  /\ last.op = "split"
  /\ last.right = <<>>
====
